---------------------------- MODULE Spec2Model ----------------------------
(***************************************************************************)
(* Tic Tac Toe (tic_tac_toe.py): the game board, the click handler         *)
(* player_turn with its nested bot_turn, check_winner with its score       *)
(* side effect, reset_game, set_difficulty, and the depth-capped minimax   *)
(* search find_best_move / minimax, which works on the board in place      *)
(* (mark a cell, recurse, revert the cell).                                *)
(***************************************************************************)
EXTENDS Integers, Sequences, FiniteSets, TLC

\* ---------------------------------------------------------------- bounds

\* Highest depth cap the search is driven at (the program's own levels stop
\* at 6; a cap of 9 covers the whole 3x3 game).
MaxDifficulty == 9

\* Games scored before the model stops taking clicks (the counters of
\* score are unbounded in the program).
MaxScore == 1

\* Most Empty cells on the boards the search is applied to in isolation.
MaxEmpty == 3

\* Most Empty cells on the boards of legal play the search is applied to
\* at every cap (the opening board of InitLegal has more).
MaxLegalEmpty == 4

\* Animation threads highlight_winning_move starts before the model stops
\* starting more (the program starts one with every engine move).
MaxThreads == 3

\* ------------------------------------------------------------- constants

PLAYER_X == "X"
PLAYER_O == "O"
EMPTY == " "

\* math.inf as best_score's initial value; every score it is compared with
\* is in -1..1, so 2 orders against them as math.inf does.
Inf == 2

\* None, as find_best_move returns it; a move is the tuple <<row, column>>.
None == <<>>

Marks == {PLAYER_X, PLAYER_O, EMPTY}

\* The 3x3 list board is held as the 9-tuple of its cells in row-major
\* order: board[row][column] of the program is b[Cell(row, column)].
Cells == 1 .. 9
Cell(row, column) == 3 * row + column + 1
RowOf(i) == (i - 1) \div 3
ColumnOf(i) == (i - 1) % 3

\* The eight lines of main(), each as the cells of its three coordinates.
winning_combinations ==
    { <<Cell(0, 0), Cell(0, 1), Cell(0, 2)>>,
      <<Cell(1, 0), Cell(1, 1), Cell(1, 2)>>,
      <<Cell(2, 0), Cell(2, 1), Cell(2, 2)>>,
      <<Cell(0, 0), Cell(1, 0), Cell(2, 0)>>,
      <<Cell(0, 1), Cell(1, 1), Cell(2, 1)>>,
      <<Cell(0, 2), Cell(1, 2), Cell(2, 2)>>,
      <<Cell(0, 0), Cell(1, 1), Cell(2, 2)>>,
      <<Cell(0, 2), Cell(1, 1), Cell(2, 0)>> }

\* The radio buttons' values (Easy, Medium, Hard).
Levels == {1, 2, 3}
Easy == 1
Hard == 3

\* ----------------------------------------------------------------- state

VARIABLES
    board,            \* the global 3x3 list of marks
    score,            \* the global tally {'X', 'O', 'Tie'}
    difficulty_var,   \* the radio buttons' IntVar
    bot_difficulty,   \* the depth cap bot_turn hands to find_best_move
    active_threads,   \* the global list of animation threads, as a set
    is_shutting_down, \* the global flag on_closing sets
    animate_highlight,\* where each animation thread is in animate_highlight
    main_thread,      \* where the main thread is
    thread            \* highlight_winning_move's local `thread` (0: none)

\* The animation threads' identities.
Threads == 1 .. MaxThreads

\* The variables of the animation-thread bookkeeping.
animation ==
    <<active_threads, is_shutting_down, animate_highlight, main_thread, thread>>

vars == <<board, score, difficulty_var, bot_difficulty, animation>>

\* No animation thread started, the main thread in window.mainloop().
NoAnimation ==
    /\ active_threads = {}
    /\ is_shutting_down = FALSE
    /\ animate_highlight = [t \in Threads |-> "unborn"]
    /\ main_thread = "mainloop"
    /\ thread = 0

\* ------------------------------------------------------- board operators

\* [[EMPTY for _ in range(3)] for _ in range(3)]
EmptyBoard == <<EMPTY, EMPTY, EMPTY, EMPTY, EMPTY, EMPTY, EMPTY, EMPTY, EMPTY>>

\* board[r][c] = mark, i being Cell(r, c)
SetCell(b, i, mark) == [b EXCEPT ![i] = mark]

\* any(EMPTY in row for row in board)
AnyEmpty(b) == \E i \in Cells : b[i] = EMPTY

check_winning_condition(b, player) ==
    \E line \in winning_combinations :
        /\ b[line[1]] = b[line[2]]
        /\ b[line[2]] = b[line[3]]
        /\ b[line[3]] = player

\* ---------------------------------------------------------------- search

Max(x, y) == IF x >= y THEN x ELSE y
Min(x, y) == IF x <= y THEN x ELSE y

RECURSIVE minimax(_, _, _, _)
RECURSIVE MinimaxLoop(_, _, _, _, _, _)
RECURSIVE FindLoop(_, _, _, _, _)

\* MinimaxLoop with line 347 / 357 (board[r][c] = EMPTY) left out.
MinimaxLoopNoRevert(b, i, depth, is_maximizing, difficulty, best) ==
    IF i > 9 THEN [score |-> best, board |-> b]
    ELSE IF b[i] = EMPTY
         THEN LET sub == minimax(SetCell(b, i, IF is_maximizing THEN PLAYER_O
                                                                ELSE PLAYER_X),
                                 depth + 1, ~is_maximizing, difficulty)
              IN  MinimaxLoop(sub.board, i + 1, depth, is_maximizing, difficulty,
                              IF is_maximizing THEN Max(sub.score, best)
                                               ELSE Min(sub.score, best))
         ELSE MinimaxLoop(b, i + 1, depth, is_maximizing, difficulty, best)

\* MinimaxLoop with line 358 as best_score = max(score, best_score), the
\* maximizing branch's line pasted into the minimizing branch.
MinimaxLoopAlwaysMax(b, i, depth, is_maximizing, difficulty, best) ==
    IF i > 9 THEN [score |-> best, board |-> b]
    ELSE IF b[i] = EMPTY
         THEN LET sub == minimax(SetCell(b, i, IF is_maximizing THEN PLAYER_O
                                                                ELSE PLAYER_X),
                                 depth + 1, ~is_maximizing, difficulty)
              IN  MinimaxLoop(SetCell(sub.board, i, EMPTY), i + 1, depth,
                              is_maximizing, difficulty,
                              Max(sub.score, best))
         ELSE MinimaxLoop(b, i + 1, depth, is_maximizing, difficulty, best)

\* The double loop of minimax from cell i (row-major) on, best being
\* best_score so far: mark the cell, recurse, revert the cell on the board
\* the recursion left behind, fold the score.
MinimaxLoop(b, i, depth, is_maximizing, difficulty, best) ==
    IF i > 9 THEN [score |-> best, board |-> b]
    ELSE IF b[i] = EMPTY
         THEN LET sub == minimax(SetCell(b, i, IF is_maximizing THEN PLAYER_O
                                                                ELSE PLAYER_X),
                                 depth + 1, ~is_maximizing, difficulty)
              IN  MinimaxLoop(SetCell(sub.board, i, EMPTY), i + 1, depth,
                              is_maximizing, difficulty,
                              IF is_maximizing THEN Max(sub.score, best)
                                               ELSE Min(sub.score, best))
         ELSE MinimaxLoop(b, i + 1, depth, is_maximizing, difficulty, best)

\* minimax with the recursion left out: a board that is not over scores 0.
minimaxNoLookahead(b, depth, is_maximizing, difficulty) ==
    IF check_winning_condition(b, PLAYER_X) THEN [score |-> -1, board |-> b]
    ELSE IF check_winning_condition(b, PLAYER_O) THEN [score |-> 1, board |-> b]
    ELSE [score |-> 0, board |-> b]

\* minimax with line 337 as `if depth + 1 >= difficulty:`, the cut one ply
\* earlier.
minimaxCutoffEarly(b, depth, is_maximizing, difficulty) ==
    IF check_winning_condition(b, PLAYER_X) THEN [score |-> -1, board |-> b]
    ELSE IF check_winning_condition(b, PLAYER_O) THEN [score |-> 1, board |-> b]
    ELSE IF ~AnyEmpty(b) THEN [score |-> 0, board |-> b]
    ELSE IF depth + 1 >= difficulty THEN [score |-> 0, board |-> b]
    ELSE MinimaxLoop(b, 1, depth, is_maximizing, difficulty,
                     IF is_maximizing THEN -Inf ELSE Inf)

\* minimax with lines 334-335 (the full board's return 0) left out.
minimaxNoDrawCheck(b, depth, is_maximizing, difficulty) ==
    IF check_winning_condition(b, PLAYER_X) THEN [score |-> -1, board |-> b]
    ELSE IF check_winning_condition(b, PLAYER_O) THEN [score |-> 1, board |-> b]
    ELSE IF depth >= difficulty THEN [score |-> 0, board |-> b]
    ELSE MinimaxLoop(b, 1, depth, is_maximizing, difficulty,
                     IF is_maximizing THEN -Inf ELSE Inf)

\* minimax with lines 337-338 (the depth cap) left out.
minimaxNoCap(b, depth, is_maximizing, difficulty) ==
    IF check_winning_condition(b, PLAYER_X) THEN [score |-> -1, board |-> b]
    ELSE IF check_winning_condition(b, PLAYER_O) THEN [score |-> 1, board |-> b]
    ELSE IF ~AnyEmpty(b) THEN [score |-> 0, board |-> b]
    ELSE MinimaxLoop(b, 1, depth, is_maximizing, difficulty,
                     IF is_maximizing THEN -Inf ELSE Inf)

\* minimax: the score it returns and the board as it leaves it.
minimax(b, depth, is_maximizing, difficulty) ==
    IF check_winning_condition(b, PLAYER_X) THEN [score |-> -1, board |-> b]
    ELSE IF check_winning_condition(b, PLAYER_O) THEN [score |-> 1, board |-> b]
    ELSE IF ~AnyEmpty(b) THEN [score |-> 0, board |-> b]
    ELSE IF depth >= difficulty THEN [score |-> 0, board |-> b]
    ELSE MinimaxLoop(b, 1, depth, is_maximizing, difficulty,
                     IF is_maximizing THEN -Inf ELSE Inf)

\* FindLoop with line 382 (board[r][c] = EMPTY) left out.
FindLoopNoRevert(b, i, difficulty, best_score, best_move) ==
    IF i > 9 THEN [move |-> best_move, score |-> best_score, board |-> b]
    ELSE IF b[i] = EMPTY
         THEN LET sub == minimax(SetCell(b, i, PLAYER_O), 0, FALSE, difficulty)
              IN  IF sub.score > best_score
                  THEN FindLoop(sub.board, i + 1, difficulty, sub.score,
                                <<RowOf(i), ColumnOf(i)>>)
                  ELSE FindLoop(sub.board, i + 1, difficulty, best_score, best_move)
         ELSE FindLoop(b, i + 1, difficulty, best_score, best_move)

\* FindLoop with line 383 as score >= best_score.
FindLoopKeepLast(b, i, difficulty, best_score, best_move) ==
    IF i > 9 THEN [move |-> best_move, score |-> best_score, board |-> b]
    ELSE IF b[i] = EMPTY
         THEN LET sub == minimax(SetCell(b, i, PLAYER_O), 0, FALSE, difficulty)
                  undone == SetCell(sub.board, i, EMPTY)
              IN  IF sub.score >= best_score
                  THEN FindLoop(undone, i + 1, difficulty, sub.score,
                                <<RowOf(i), ColumnOf(i)>>)
                  ELSE FindLoop(undone, i + 1, difficulty, best_score, best_move)
         ELSE FindLoop(b, i + 1, difficulty, best_score, best_move)

\* The double loop of find_best_move from cell i on.
FindLoop(b, i, difficulty, best_score, best_move) ==
    IF i > 9 THEN [move |-> best_move, score |-> best_score, board |-> b]
    ELSE IF b[i] = EMPTY
         THEN LET sub == minimax(SetCell(b, i, PLAYER_O), 0, FALSE, difficulty)
                  undone == SetCell(sub.board, i, EMPTY)
              IN  IF sub.score > best_score
                  THEN FindLoop(undone, i + 1, difficulty, sub.score,
                                <<RowOf(i), ColumnOf(i)>>)
                  ELSE FindLoop(undone, i + 1, difficulty, best_score, best_move)
         ELSE FindLoop(b, i + 1, difficulty, best_score, best_move)

\* find_best_move with best_score starting at the lowest score, -1.
find_best_move_from_loss(b, difficulty) == FindLoop(b, 1, difficulty, -1, None)

\* find_best_move with line 377 as `for r in range(1, 3):`, the first row
\* never tried.
find_best_move_skip_first_row(b, difficulty) ==
    FindLoop(b, Cell(1, 0), difficulty, -Inf, None)

\* find_best_move: the move it returns (None or <<row, column>>), the best
\* score it saw, and the board as it leaves it.
find_best_move(b, difficulty) == FindLoop(b, 1, difficulty, -Inf, None)

\* -------------------------------------------------------------- handlers

Total(sc) == sc.X + sc.O + sc.Tie

\* score[player] += 1
increment_score(sc, player) == [sc EXCEPT ![player] = @ + 1]

\* check_winner with PLAYER_O's lines looked at first.
check_winner_o_first(b, sc) ==
    IF check_winning_condition(b, PLAYER_O)
    THEN [over |-> TRUE, score |-> increment_score(sc, PLAYER_O)]
    ELSE IF check_winning_condition(b, PLAYER_X)
    THEN [over |-> TRUE, score |-> increment_score(sc, PLAYER_X)]
    ELSE IF ~AnyEmpty(b)
    THEN [over |-> TRUE, score |-> increment_score(sc, "Tie")]
    ELSE [over |-> FALSE, score |-> sc]

\* check_winner: what it returns (over) and the tally it leaves.
check_winner(b, sc) ==
    IF check_winning_condition(b, PLAYER_X)
    THEN [over |-> TRUE, score |-> increment_score(sc, PLAYER_X)]
    ELSE IF check_winning_condition(b, PLAYER_O)
    THEN [over |-> TRUE, score |-> increment_score(sc, PLAYER_O)]
    ELSE IF ~AnyEmpty(b)
    THEN [over |-> TRUE, score |-> increment_score(sc, "Tie")]
    ELSE [over |-> FALSE, score |-> sc]

\* bot_turn: the board and the tally it leaves.
bot_turn(b, sc, difficulty) ==
    LET found == find_best_move(b, difficulty)
    IN  IF found.move # None
        THEN LET marked == SetCell(found.board,
                                   Cell(found.move[1], found.move[2]), PLAYER_O)
             IN  [board |-> marked, score |-> check_winner(marked, sc).score]
        ELSE [board |-> found.board, score |-> sc]

\* player_turn with line 185 as `if not check_winner():` (no look at the cell).
player_turn_any_cell(b, sc, difficulty, row, column) ==
    LET before == check_winner(b, sc)
    IN  IF ~before.over
        THEN LET marked == SetCell(b, Cell(row, column), PLAYER_X)
                 after == check_winner(marked, before.score)
             IN  IF ~after.over
                 THEN bot_turn(marked, after.score, difficulty)
                 ELSE [board |-> marked, score |-> after.score]
        ELSE [board |-> b, score |-> before.score]

\* player_turn with line 185 as `if board[row][column] == EMPTY:` (no look at
\* whether the game is over).
player_turn_after_end(b, sc, difficulty, row, column) ==
    IF b[Cell(row, column)] = EMPTY
    THEN LET marked == SetCell(b, Cell(row, column), PLAYER_X)
             after == check_winner(marked, sc)
         IN  IF ~after.over
             THEN bot_turn(marked, after.score, difficulty)
             ELSE [board |-> marked, score |-> after.score]
    ELSE [board |-> b, score |-> sc]

\* player_turn with line 191 as a bare `bot_turn()`, the engine answering
\* X's winning or last mark too.
player_turn_bot_always(b, sc, difficulty, row, column) ==
    IF b[Cell(row, column)] = EMPTY
    THEN LET before == check_winner(b, sc)
         IN  IF ~before.over
             THEN bot_turn(SetCell(b, Cell(row, column), PLAYER_X),
                           before.score, difficulty)
             ELSE [board |-> b, score |-> before.score]
    ELSE [board |-> b, score |-> sc]

\* player_turn(row, column): the board and the tally it leaves.
player_turn(b, sc, difficulty, row, column) ==
    IF b[Cell(row, column)] = EMPTY
    THEN LET before == check_winner(b, sc)
         IN  IF ~before.over
             THEN LET marked == SetCell(b, Cell(row, column), PLAYER_X)
                      after == check_winner(marked, before.score)
                  IN  IF ~after.over
                      THEN bot_turn(marked, after.score, difficulty)
                      ELSE [board |-> marked, score |-> after.score]
             ELSE [board |-> b, score |-> before.score]
    ELSE [board |-> b, score |-> sc]

\* set_difficulty with the `* 2` of line 621 left out.
set_difficulty_unscaled(level) == level

\* set_difficulty: the bot_difficulty it leaves, level being
\* difficulty_var.get().
set_difficulty(level) == level * 2

\* ------------------------------------------------------------ the program

\* main(): empty board, zero tally, IntVar(value=1), set_difficulty().
Init ==
    /\ NoAnimation
    /\ board = EmptyBoard
    /\ score = [X |-> 0, O |-> 0, Tie |-> 0]
    /\ difficulty_var = Easy
    /\ bot_difficulty = set_difficulty(Easy)

\* A click on the button of (row, column). The animation thread that
\* bot_turn starts at line 216 writes neither board nor score; its
\* bookkeeping is followed apart, in SpecThreads.
PlayerTurn(row, column) ==
    /\ Total(score) < MaxScore
    /\ LET done == player_turn(board, score, bot_difficulty, row, column)
       IN  /\ board' = done.board
           /\ score' = done.score
    /\ UNCHANGED <<difficulty_var, bot_difficulty, animation>>

\* reset_game with the tally zeroed as well (score = {'X': 0, 'O': 0,
\* 'Tie': 0} added to it).
ResetGameClearsScore ==
    /\ board' = EmptyBoard
    /\ score' = [X |-> 0, O |-> 0, Tie |-> 0]
    /\ UNCHANGED <<difficulty_var, bot_difficulty, animation>>

\* The Reset button.
ResetGame ==
    /\ board' = EmptyBoard
    /\ UNCHANGED <<score, difficulty_var, bot_difficulty, animation>>

\* A radio button: it sets the IntVar, then runs set_difficulty.
SetDifficulty(level) ==
    /\ difficulty_var' = level
    /\ bot_difficulty' = set_difficulty(level)
    /\ UNCHANGED <<board, score, animation>>

Next ==
    \/ \E row \in 0 .. 2 : \E column \in 0 .. 2 : PlayerTurn(row, column)
    \/ ResetGame
    \/ \E level \in Levels : SetDifficulty(level)

Spec == Init /\ [][Next]_vars

\* ------------------------------------------------- one game at full depth

\* A depth cap that covers the whole game: the number of cells.
FullDepth == 3 * 3

\* The program as main() leaves it, but with bot_difficulty at a cap the
\* radio buttons do not offer, FullDepth or more.
InitFull ==
    /\ NoAnimation
    /\ board = EmptyBoard
    /\ score = [X |-> 0, O |-> 0, Tie |-> 0]
    /\ difficulty_var = 1
    /\ bot_difficulty \in FullDepth .. MaxDifficulty

NextFull == \E row \in 0 .. 2 : \E column \in 0 .. 2 : PlayerTurn(row, column)

SpecFull == InitFull /\ [][NextFull]_vars

\* ------------------------------------------------- games at a kept level

\* The program after the Hard radio button has been clicked on the empty
\* board.
InitHard ==
    /\ NoAnimation
    /\ board = EmptyBoard
    /\ score = [X |-> 0, O |-> 0, Tie |-> 0]
    /\ difficulty_var = Hard
    /\ bot_difficulty = set_difficulty(Hard)

\* Clicks on cells and on Reset, the radio buttons left alone.
NextKeptLevel ==
    \/ \E row \in 0 .. 2 : \E column \in 0 .. 2 : PlayerTurn(row, column)
    \/ ResetGame

\* Games with the level kept at Hard.
SpecHard == InitHard /\ [][NextKeptLevel]_vars

\* Games with the level kept at Easy, the level main() starts with.
SpecEasy == Init /\ [][NextKeptLevel]_vars

\* ------------------------------------------------ the search in isolation

EmptyCount(b) == Cardinality({i \in Cells : b[i] = EMPTY})

\* Every 9-tuple of marks.
AllBoards == [Cells -> Marks]

\* X X _ / O O _ / _ _ _ : O can complete its middle row.
BoardRowWin ==
    <<PLAYER_X, PLAYER_X, EMPTY, PLAYER_O, PLAYER_O, EMPTY, EMPTY, EMPTY, EMPTY>>

\* X _ _ / _ X _ / _ _ _ : X threatens the main diagonal.
BoardDiagonalThreat ==
    <<PLAYER_X, EMPTY, EMPTY, EMPTY, PLAYER_X, EMPTY, EMPTY, EMPTY, EMPTY>>

\* The boards find_best_move is applied to: any mix of marks with at most
\* MaxEmpty Empty cells, at every cap that can cut their search short and
\* one that cannot, and the two scenario boards at every cap.
InitSearch ==
    /\ NoAnimation
    /\ score = [X |-> 0, O |-> 0, Tie |-> 0]
    /\ difficulty_var = 1
    /\ \/ /\ board \in {b \in AllBoards : EmptyCount(b) <= MaxEmpty}
          /\ bot_difficulty \in 1 .. MaxEmpty
       \/ /\ board \in {BoardRowWin, BoardDiagonalThreat}
          /\ bot_difficulty \in 1 .. MaxDifficulty

\* bot_turn() on the board as it stands (the animation thread apart, as
\* in PlayerTurn).
BotTurn ==
    /\ Total(score) < MaxScore
    /\ LET done == bot_turn(board, score, bot_difficulty)
       IN  /\ board' = done.board
           /\ score' = done.score
    /\ UNCHANGED <<difficulty_var, bot_difficulty, animation>>

NextSearch == BotTurn

SpecSearch == InitSearch /\ [][NextSearch]_vars

\* ------------------------------------- the search on boards of legal play

\* A board legal alternating play reaches with O to move: X, who moves
\* first, has one mark more than O.
OToMove(b) ==
    Cardinality({i \in Cells : b[i] = PLAYER_X})
        = Cardinality({i \in Cells : b[i] = PLAYER_O}) + 1

\* The boards on which bot_turn is called in play: X has just marked a
\* cell and check_winner() is false (no line, an Empty cell left). A board
\* with no line and one X more than O's is reached by marking its cells
\* in turn in any order, no line being completed on the way.
LegalBoards ==
    {b \in AllBoards : /\ OToMove(b)
                       /\ ~check_winning_condition(b, PLAYER_X)
                       /\ ~check_winning_condition(b, PLAYER_O)
                       /\ AnyEmpty(b)}

\* _ _ _ / _ X _ / _ _ _ : X has opened in the centre.
BoardCentreOpening ==
    <<EMPTY, EMPTY, EMPTY, EMPTY, PLAYER_X, EMPTY, EMPTY, EMPTY, EMPTY>>

\* The legal boards with at most MaxLegalEmpty Empty cells at every cap,
\* and the centre opening at the caps that are no less than its number of
\* Empty cells.
InitLegal ==
    /\ NoAnimation
    /\ score = [X |-> 0, O |-> 0, Tie |-> 0]
    /\ difficulty_var = 1
    /\ \/ /\ board \in {b \in LegalBoards : EmptyCount(b) <= MaxLegalEmpty}
          /\ bot_difficulty \in 1 .. MaxDifficulty
       \/ /\ board = BoardCentreOpening
          /\ bot_difficulty \in EmptyCount(BoardCentreOpening) .. MaxDifficulty

NextLegal == BotTurn

SpecLegal == InitLegal /\ [][NextLegal]_vars

\* ------------------------------------------- outcome detection in isolation

InitBoards ==
    /\ NoAnimation
    /\ board \in AllBoards
    /\ score = [X |-> 0, O |-> 0, Tie |-> 0]
    /\ difficulty_var = 1
    /\ bot_difficulty = 2

\* check_winner() on the board as it stands.
CheckWinner ==
    /\ Total(score) < MaxScore
    /\ score' = check_winner(board, score).score
    /\ UNCHANGED <<board, difficulty_var, bot_difficulty, animation>>

NextBoards == CheckWinner

SpecBoards == InitBoards /\ [][NextBoards]_vars

\* ------------------------------------- the animation threads' bookkeeping

\* The variables of the game, which the animation leaves alone.
game == <<board, score, difficulty_var, bot_difficulty>>

\* highlight_winning_move, as bot_turn calls it at line 216, up to
\* thread.start(): the flag is tested, the thread is made and started. The
\* new thread is the first one not started yet.
HighlightWinningMove ==
    /\ main_thread = "mainloop"
    /\ ~is_shutting_down
    /\ \E t \in Threads :
        /\ animate_highlight[t] = "unborn"
        /\ \A u \in Threads : u < t => animate_highlight[u] # "unborn"
        /\ animate_highlight' = [animate_highlight EXCEPT ![t] = "try"]
        /\ thread' = t
    /\ main_thread' = "started"
    /\ UNCHANGED <<game, active_threads, is_shutting_down>>

\* active_threads.append(thread), the last line of highlight_winning_move.
ActiveThreadsAppend ==
    /\ main_thread = "started"
    /\ active_threads' = active_threads \cup {thread}
    /\ thread' = 0
    /\ main_thread' = "mainloop"
    /\ UNCHANGED <<game, is_shutting_down, animate_highlight>>

\* Thread t leaves the try block of animate_highlight: its three rounds are
\* over, or it has read is_shutting_down as true, or a call on the button
\* or the window has raised.
AnimateLeaveTry(t) ==
    /\ animate_highlight[t] = "try"
    /\ animate_highlight' = [animate_highlight EXCEPT ![t] = "finally"]
    /\ UNCHANGED <<game, active_threads, is_shutting_down, main_thread, thread>>

\* Thread t evaluates `threading.current_thread() in active_threads`.
AnimateFinallyTest(t) ==
    /\ animate_highlight[t] = "finally"
    /\ animate_highlight' =
         [animate_highlight EXCEPT ![t] = IF t \in active_threads THEN "remove"
                                                                  ELSE "done"]
    /\ UNCHANGED <<game, active_threads, is_shutting_down, main_thread, thread>>

\* Thread t runs active_threads.remove(threading.current_thread()) and
\* ends (with ValueError if on_closing has cleared the list meanwhile).
AnimateFinallyRemove(t) ==
    /\ animate_highlight[t] = "remove"
    /\ active_threads' = active_threads \ {t}
    /\ animate_highlight' = [animate_highlight EXCEPT ![t] = "done"]
    /\ UNCHANGED <<game, is_shutting_down, main_thread, thread>>

\* on_closing up to the joins: the flag is set; the threads run on while
\* the main thread waits in thread.join(0.5).
OnClosing ==
    /\ main_thread = "mainloop"
    /\ is_shutting_down' = TRUE
    /\ main_thread' = "joining"
    /\ UNCHANGED <<game, active_threads, animate_highlight, thread>>

\* on_closing from active_threads.clear() on; the window is destroyed.
OnClosingClear ==
    /\ main_thread = "joining"
    /\ active_threads' = {}
    /\ main_thread' = "closed"
    /\ UNCHANGED <<game, is_shutting_down, animate_highlight, thread>>

NextThreads ==
    \/ HighlightWinningMove
    \/ ActiveThreadsAppend
    \/ \E t \in Threads : AnimateLeaveTry(t)
    \/ \E t \in Threads : AnimateFinallyTest(t)
    \/ \E t \in Threads : AnimateFinallyRemove(t)
    \/ OnClosing
    \/ OnClosingClear

\* The main thread and the animation threads, interleaved at every point
\* where one of them reads or writes active_threads or is_shutting_down.
SpecThreads == Init /\ [][NextThreads]_vars

\* ------------------------------------------------------------ properties

\* The eight lines by their geometry: a row, a column or a diagonal.
GeometricLines ==
    {{Cell(r, c) : c \in 0 .. 2} : r \in 0 .. 2}
        \cup {{Cell(r, c) : r \in 0 .. 2} : c \in 0 .. 2}
        \cup {{Cell(k, k) : k \in 0 .. 2}, {Cell(k, 2 - k) : k \in 0 .. 2}}

HasLine(b, player) == \E line \in GeometricLines : \A i \in line : b[i] = player

IsFull(b) == \A i \in Cells : b[i] # EMPTY

\* The outcome of a board: X's lines first, then O's, then a draw.
Outcome(b) ==
    IF HasLine(b, PLAYER_X) THEN "WinX"
    ELSE IF HasLine(b, PLAYER_O) THEN "WinO"
    ELSE IF IsFull(b) THEN "Draw"
    ELSE "InProgress"

EmptyCells(b) == {i \in Cells : b[i] = EMPTY}

MinOf(S) == CHOOSE x \in S : \A y \in S : x <= y
MaxOf(S) == CHOOSE x \in S : \A y \in S : x >= y

\* C1: with a depth cap of 9 or more the engine never loses: in a game from
\* the empty board, X moving first and O answering by find_best_move, no
\* reachable board has a completed X line (so a game that is over is an O
\* win or a draw).
C1_EngineNeverLoses ==
    bot_difficulty >= FullDepth =>
        /\ ~HasLine(board, PLAYER_X)
        /\ Outcome(board) \in {"InProgress", "WinO", "Draw"}

\* A game at full depth that O has won.
C1_Witness ==
    /\ bot_difficulty >= FullDepth
    /\ Outcome(board) = "WinO"
    /\ score.O = 1

\* C2: find_best_move has no net effect on the board: for every board and
\* every difficulty the nine cells are after the call what they were before.
C2_BoardRestored == find_best_move(board, bot_difficulty).board = board

\* bot_turn at the highest cap has acted on the diagonal-threat board (a
\* search seven plies deep): the board is that board plus the one O mark.
C2_Witness ==
    /\ bot_difficulty = MaxDifficulty
    /\ \E i \in Cells :
        /\ board[i] = PLAYER_O
        /\ SetCell(board, i, EMPTY) = BoardDiagonalThreat

\* The score of the candidate cell i: minimax after O is placed there.
CandidateScore(b, i, difficulty) ==
    minimax(SetCell(b, i, PLAYER_O), 0, FALSE, difficulty).score

\* The earliest cell, in row-major order, among the Empty cells of b whose
\* candidate score is the greatest.
EarliestBest(b, difficulty) ==
    LET scored == {<<i, CandidateScore(b, i, difficulty)>> : i \in EmptyCells(b)}
        best == MaxOf({p[2] : p \in scored})
    IN  MinOf({p[1] : p \in {q \in scored : q[2] = best}})

\* C3: tie-break: on a board with an Empty cell, the move find_best_move
\* returns is the earliest cell in row-major order among the Empty cells
\* whose score is the maximum over all Empty cells.
C3_TieBreakEarliest ==
    AnyEmpty(board) =>
        LET k == EarliestBest(board, bot_difficulty)
        IN  find_best_move(board, bot_difficulty).move = <<RowOf(k), ColumnOf(k)>>

\* A board in progress on which two Empty cells tie for the greatest score
\* and the first Empty cell is not among them.
C3_Witness ==
    /\ Outcome(board) = "InProgress"
    /\ LET k == EarliestBest(board, bot_difficulty)
       IN  /\ k # MinOf(EmptyCells(board))
           /\ \E j \in EmptyCells(board) :
                /\ j > k
                /\ CandidateScore(board, j, bot_difficulty)
                     = CandidateScore(board, k, bot_difficulty)
           /\ find_best_move(board, bot_difficulty).move = <<RowOf(k), ColumnOf(k)>>

\* C4 as claimed: on X X _ / O O _ / _ _ _ find_best_move returns (1,2), the
\* cell that completes O's middle row, for every positive difficulty.
C4_AsClaimed ==
    board = BoardRowWin => find_best_move(board, bot_difficulty).move = <<1, 2>>

\* C4 as amended: on that board find_best_move returns (1,2) with
\* difficulty 1 only; with every difficulty of 2 or more it returns (0,2),
\* the earliest cell whose score is +1 (O at (0,2) blocks X's row and wins
\* by force), and both (0,2) and (1,2) score +1 there.
C4_RowWinMove ==
    board = BoardRowWin =>
        LET found == find_best_move(board, bot_difficulty)
        IN  /\ found.score = 1
            /\ CandidateScore(board, Cell(1, 2), bot_difficulty) = 1
            /\ found.move = IF bot_difficulty = 1 THEN <<1, 2>> ELSE <<0, 2>>

\* bot_turn at difficulty 6 has acted on the board: O stands on (0,2) and
\* (1,2) is still Empty.
C4_Witness ==
    /\ bot_difficulty = 6
    /\ board = SetCell(BoardRowWin, Cell(0, 2), PLAYER_O)

\* C5 as claimed: on X _ _ / _ X _ / _ _ _ with difficulty 9 or more
\* find_best_move returns (2,2), the cell that blocks the diagonal.
C5_AsClaimed ==
    (board = BoardDiagonalThreat /\ bot_difficulty >= FullDepth) =>
        find_best_move(board, bot_difficulty).move = <<2, 2>>

\* C5 as amended: on that board find_best_move returns the blocking cell
\* (2,2) with difficulty 1 or 2 only; with every difficulty of 3 or more
\* (9 included) every candidate scores -1, the block too, and it returns
\* (0,1), the first Empty cell.
C5_DiagonalThreatMove ==
    board = BoardDiagonalThreat =>
        LET found == find_best_move(board, bot_difficulty)
        IN  IF bot_difficulty <= 2
            THEN found.move = <<2, 2>> /\ found.score = 0
            ELSE /\ found.move = <<0, 1>>
                 /\ \A i \in EmptyCells(board) :
                        CandidateScore(board, i, bot_difficulty) = -1

\* bot_turn at the highest cap has acted on the board: O stands on (0,1).
C5_Witness ==
    /\ bot_difficulty = MaxDifficulty
    /\ bot_difficulty >= FullDepth
    /\ board = SetCell(BoardDiagonalThreat, Cell(0, 1), PLAYER_O)

\* C9: find_best_move returns None exactly on the boards with no Empty
\* cell, and on a board with an Empty cell the coordinates of an Empty cell.
C9_NoneIffFull ==
    LET move == find_best_move(board, bot_difficulty).move
    IN  IF AnyEmpty(board)
        THEN /\ move # None
             /\ move \in (0 .. 2) \X (0 .. 2)
             /\ board[Cell(move[1], move[2])] = EMPTY
        ELSE move = None

\* A full board without a line (a draw), on which it returns None.
C9_Witness ==
    /\ Outcome(board) = "Draw"
    /\ find_best_move(board, bot_difficulty).move = None

\* C10 as claimed: on a board that is over (a completed line of X or of O,
\* or no Empty cell) find_best_move returns None, for every difficulty.
C10_AsClaimed ==
    Outcome(board) # "InProgress" =>
        find_best_move(board, bot_difficulty).move = None

\* C10 as amended: on a board that is over find_best_move returns None if
\* the board is full; if a line is completed and an Empty cell is left it
\* returns the first Empty cell in row-major order, every candidate scoring
\* alike (-1 with an X line, else +1).
C10_TerminalBoardMove ==
    Outcome(board) # "InProgress" =>
        LET found == find_best_move(board, bot_difficulty)
            first == MinOf(EmptyCells(board))
        IN  IF IsFull(board)
            THEN found.move = None
            ELSE /\ found.move = <<RowOf(first), ColumnOf(first)>>
                 /\ found.score = IF HasLine(board, PLAYER_X) THEN -1 ELSE 1

\* A board with a completed X line and two Empty cells or more, on which
\* it returns the first of them.
C10_Witness ==
    /\ HasLine(board, PLAYER_X)
    /\ EmptyCount(board) >= 2
    /\ LET first == MinOf(EmptyCells(board))
       IN  find_best_move(board, bot_difficulty).move
               = <<RowOf(first), ColumnOf(first)>>

\* C6: outcome detection: check_winner reports a win for X (over, and X's
\* counter incremented) iff some row, column or diagonal is all X; else a
\* win for O iff one is all O; else a draw iff no cell is Empty; else the
\* game is in progress (not over, no counter touched). A board with lines
\* of both is an X win.
C6_OutcomeDetection ==
    LET got == check_winner(board, score)
        outcome == Outcome(board)
    IN  /\ got.over = (outcome # "InProgress")
        /\ got.score =
             IF outcome = "WinX" THEN [score EXCEPT !.X = @ + 1]
             ELSE IF outcome = "WinO" THEN [score EXCEPT !.O = @ + 1]
             ELSE IF outcome = "Draw" THEN [score EXCEPT !.Tie = @ + 1]
             ELSE score

\* check_winner has acted on a board with a line of X and a line of O, and
\* counted it for X.
C6_Witness ==
    /\ HasLine(board, PLAYER_X)
    /\ HasLine(board, PLAYER_O)
    /\ score = [X |-> 1, O |-> 0, Tie |-> 0]

\* C7: the outcome is monotonic: once the board is over (X win, O win or
\* draw) a click on any cell places no mark, neither X's nor the engine's,
\* so without reset_game the outcome stays what it is.
C7_NoMarkAfterEnd ==
    Outcome(board) # "InProgress" =>
        \A row \in 0 .. 2 : \A column \in 0 .. 2 :
            player_turn(board, score, bot_difficulty, row, column).board = board

\* A game X has won with an Empty cell left to click on.
C7_Witness ==
    /\ Outcome(board) = "WinX"
    /\ AnyEmpty(board)
    /\ score.X = 1

\* C8: a click on an occupied cell changes nothing: for every cell that
\* holds X or O, player_turn leaves the nine cells (and the tally) as they
\* were, so no engine move is made either.
C8_OccupiedCellRejected ==
    \A row \in 0 .. 2 : \A column \in 0 .. 2 :
        board[Cell(row, column)] # EMPTY =>
            player_turn(board, score, bot_difficulty, row, column)
                = [board |-> board, score |-> score]

\* A game in progress after two clicks and two replies: four occupied
\* cells that a click is rejected on while clicks elsewhere are taken.
C8_Witness ==
    /\ Outcome(board) = "InProgress"
    /\ EmptyCount(board) = 5
    /\ Total(score) = 0


\* The true game value of board b for O, by exhaustive play to the end of
\* the game with no depth cap: -1 when X has a line, +1 when O has one, 0
\* on a full board with no line, otherwise the best value the side to move
\* can reach (O takes the greatest, X the least).
RECURSIVE GameValue(_, _)
GameValue(b, o_to_move) ==
    IF HasLine(b, PLAYER_X) THEN -1
    ELSE IF HasLine(b, PLAYER_O) THEN 1
    ELSE IF IsFull(b) THEN 0
    ELSE LET values == {GameValue(SetCell(b, i, IF o_to_move THEN PLAYER_O
                                                              ELSE PLAYER_X),
                                  ~o_to_move) : i \in EmptyCells(b)}
         IN  IF o_to_move THEN MaxOf(values) ELSE MinOf(values)

\* The true game value of O's candidate cell i on board b.
CandidateValue(b, i) == GameValue(SetCell(b, i, PLAYER_O), FALSE)

\* C11: the capped search is exactly optimal when the cap is at least the
\* number of Empty cells: on every board in progress (those legal play
\* reaches with O to move among them) and with every difficulty that is at
\* least the number of Empty cells, the score of each candidate cell equals
\* the candidate's true game value, and the move find_best_move returns has
\* the greatest true game value of all candidates.
C11_OptimalWhenCapCoversBoard ==
    (Outcome(board) = "InProgress" /\ bot_difficulty >= EmptyCount(board)) =>
        LET found == find_best_move(board, bot_difficulty)
            value == [i \in EmptyCells(board) |-> CandidateValue(board, i)]
        IN  /\ \A i \in EmptyCells(board) :
                 CandidateScore(board, i, bot_difficulty) = value[i]
            /\ found.move # None
            /\ value[Cell(found.move[1], found.move[2])]
                 = MaxOf({value[i] : i \in EmptyCells(board)})
            /\ found.score = value[Cell(found.move[1], found.move[2])]

\* A board in progress that legal play reaches with O to move, searched
\* with a difficulty equal to its number of Empty cells, where the
\* candidates differ in true value and O has marked one of the best (the
\* state after bot_turn).
C11_Witness ==
    \E i \in Cells :
        /\ board[i] = PLAYER_O
        /\ LET before == SetCell(board, i, EMPTY)
           IN  /\ Outcome(before) = "InProgress"
               /\ OToMove(before)
               /\ EmptyCount(before) = MaxLegalEmpty
               /\ bot_difficulty = EmptyCount(before)
               /\ bot_turn(before, score, bot_difficulty).board = board
               /\ \E j \in EmptyCells(before) :
                    CandidateValue(before, j) < CandidateValue(before, i)

\* The four corners and the centre, as moves.
CornersAndCentre == {<<0, 0>>, <<0, 2>>, <<1, 1>>, <<2, 0>>, <<2, 2>>}

\* C12: on the empty board with O to move and a difficulty of 9 or more,
\* find_best_move returns a corner or the centre, never an edge-midpoint
\* cell, and the score of the cell it returns is 0.
C12_EmptyBoardOpening ==
    (board = EmptyBoard /\ bot_difficulty >= FullDepth) =>
        LET found == find_best_move(board, bot_difficulty)
        IN  /\ found.move \in CornersAndCentre
            /\ found.score = 0

\* The empty board searched with a difficulty of 9 or more: the search
\* returns the corner (0,0), and every opening cell scores 0.
C12_Witness ==
    /\ board = EmptyBoard
    /\ bot_difficulty >= FullDepth
    /\ find_best_move(board, bot_difficulty).move = <<0, 0>>
    /\ \A i \in Cells : CandidateValue(board, i) = 0

RECURSIVE NoLineWithin(_, _, _)
NoLineWithin(b, o_to_move, plies) ==
    /\ ~HasLine(b, PLAYER_X)
    /\ ~HasLine(b, PLAYER_O)
    /\ plies > 0 =>
         \A i \in EmptyCells(b) :
            NoLineWithin(SetCell(b, i, IF o_to_move THEN PLAYER_O ELSE PLAYER_X),
                         ~o_to_move, plies - 1)

\* The value of b for O when play is looked at for `plies` further marks
\* only: lines completed within them count -1 / +1, everything beyond is 0.
RECURSIVE HorizonValue(_, _, _)
HorizonValue(b, o_to_move, plies) ==
    IF HasLine(b, PLAYER_X) THEN -1
    ELSE IF HasLine(b, PLAYER_O) THEN 1
    ELSE IF IsFull(b) \/ plies = 0 THEN 0
    ELSE LET values == {HorizonValue(SetCell(b, i, IF o_to_move THEN PLAYER_O
                                                                ELSE PLAYER_X),
                                     ~o_to_move, plies - 1) : i \in EmptyCells(b)}
         IN  IF o_to_move THEN MaxOf(values) ELSE MinOf(values)

\* C14 as claimed: the search looks at most bot_difficulty plies below the
\* board it is given, O's candidate mark being ply 1: a candidate with no
\* line completed within those plies (the candidate and bot_difficulty - 1
\* further marks) scores 0.
C14_AsClaimed ==
    \A i \in EmptyCells(board) :
        NoLineWithin(SetCell(board, i, PLAYER_O), FALSE, bot_difficulty - 1)
            => CandidateScore(board, i, bot_difficulty) = 0

\* C14 as amended: the search looks bot_difficulty + 1 plies below the
\* board it is given, O's candidate mark being ply 1: minimax tests for a
\* completed line before it tests the depth, so each candidate's score is
\* its value over the candidate and bot_difficulty further marks, lines
\* completed at ply bot_difficulty + 1 included; only a candidate with no
\* line within those plies is sure to score 0.
C14_LookAheadPlies ==
    \A i \in EmptyCells(board) :
        LET s == CandidateScore(board, i, bot_difficulty)
        IN  /\ s = HorizonValue(SetCell(board, i, PLAYER_O), FALSE, bot_difficulty)
            /\ s # 0 => ~NoLineWithin(SetCell(board, i, PLAYER_O), FALSE,
                                      bot_difficulty)

\* O has just marked the cell the search returned on a board in progress
\* where one candidate has its first line at ply bot_difficulty + 1 and is
\* scored by it, and another candidate, whose lines all come later than
\* that, scores 0 although its true value is not 0.
C14_Witness ==
    \E i \in Cells :
        /\ board[i] = PLAYER_O
        /\ LET before == SetCell(board, i, EMPTY)
           IN  /\ Outcome(before) = "InProgress"
               /\ bot_turn(before, score, bot_difficulty).board = board
               /\ \E j \in EmptyCells(before) :
                    /\ NoLineWithin(SetCell(before, j, PLAYER_O), FALSE,
                                    bot_difficulty - 1)
                    /\ CandidateScore(before, j, bot_difficulty) # 0
               /\ \E k \in EmptyCells(before) :
                    /\ NoLineWithin(SetCell(before, k, PLAYER_O), FALSE,
                                    bot_difficulty)
                    /\ CandidateScore(before, k, bot_difficulty) = 0
                    /\ CandidateValue(before, k) # 0

\* The depths minimax is called with for C15: the first one, which is
\* below every cap, and those at and just above the cap.
DepthsAround(difficulty) ==
    {0, difficulty, difficulty + 1}

\* C15: minimax returns only -1, 0 or +1, whatever the board, the depth,
\* the side to move and the difficulty, never the +/-infinity its best
\* score starts from: -1 on a board with a completed X line, +1 on a board
\* with a completed O line and no X line, 0 on a full board with no line
\* and 0 on a board in progress whose depth is at least the difficulty.
C15_ScoreRange ==
    \A depth \in DepthsAround(bot_difficulty) : \A is_maximizing \in BOOLEAN :
        LET s == minimax(board, depth, is_maximizing, bot_difficulty).score
        IN  /\ s \in {-1, 0, 1}
            /\ HasLine(board, PLAYER_X) => s = -1
            /\ (HasLine(board, PLAYER_O) /\ ~HasLine(board, PLAYER_X)) => s = 1
            /\ Outcome(board) = "Draw" => s = 0
            /\ (Outcome(board) = "InProgress" /\ depth >= bot_difficulty) => s = 0

\* O has just moved on a board in progress with MaxEmpty Empty cells and
\* the game goes on; from the board reached, minimax at depth 0 returns -1
\* for one side to move and +1 for the other, and 0 at the cap.
C15_Witness ==
    /\ Outcome(board) = "InProgress"
    /\ \E i \in Cells :
        /\ board[i] = PLAYER_O
        /\ EmptyCount(SetCell(board, i, EMPTY)) = MaxEmpty
        /\ bot_turn(SetCell(board, i, EMPTY), score, bot_difficulty).board = board
    /\ minimax(board, 0, FALSE, bot_difficulty).score = -1
    /\ minimax(board, 0, TRUE, bot_difficulty).score = 1
    /\ minimax(board, bot_difficulty, FALSE, bot_difficulty).score = 0

\* C16: between the handlers of a game (clicks answered by the engine at
\* any of the three levels, resets, changes of level) the board never
\* holds a completed line of X together with a completed line of O.
C16_NeverBothLines ==
    ~(HasLine(board, PLAYER_X) /\ HasLine(board, PLAYER_O))

\* The engine has completed a line while X holds two cells of a line whose
\* third cell is still Empty: one more X mark would give both players a
\* line.
C16_Witness ==
    /\ HasLine(board, PLAYER_O)
    /\ ~HasLine(board, PLAYER_X)
    /\ \E i \in EmptyCells(board) : HasLine(SetCell(board, i, PLAYER_X), PLAYER_X)

\* The cells of b that hold mark.
CountOf(b, mark) == Cardinality({i \in Cells : b[i] = mark})

\* What a handler may do to the board: nothing; empty it (reset_game); put
\* X on an Empty cell of a board in progress and stop there because that
\* ends the game; or put X on an Empty cell of a board in progress and, the
\* game going on, O on one other Empty cell.
AlternatingStep ==
    \/ board' = board
    \/ board' = EmptyBoard
    \/ /\ Outcome(board) = "InProgress"
       /\ \E x \in EmptyCells(board) :
            LET marked == SetCell(board, x, PLAYER_X)
            IN  \/ /\ Outcome(marked) # "InProgress"
                   /\ board' = marked
                \/ /\ Outcome(marked) = "InProgress"
                   /\ \E o \in EmptyCells(marked) :
                        board' = SetCell(marked, o, PLAYER_O)

\* C17: strict alternation with X first: in every reachable state X has as
\* many marks as O or one more; between handlers either the game is over
\* or the two counts are equal; and every step is an alternating step: an
\* accepted X mark that does not end the game is answered by exactly one O
\* mark on a cell that was Empty, and O is never marked otherwise.
C17_StrictAlternation ==
    /\ [](/\ CountOf(board, PLAYER_X) - CountOf(board, PLAYER_O) \in {0, 1}
          /\ Outcome(board) = "InProgress"
               => CountOf(board, PLAYER_X) = CountOf(board, PLAYER_O))
    /\ [][AlternatingStep]_vars

\* Three X marks answered by three O marks, the game still in progress.
C17_Witness ==
    /\ Outcome(board) = "InProgress"
    /\ CountOf(board, PLAYER_X) = 3
    /\ CountOf(board, PLAYER_O) = 3

\* C18 as claimed: a finished game is scored once: on a board that is over
\* (and so already counted in the tally) a click on any cell leaves every
\* counter of the tally as it is.
C18_ScoredOnce ==
    Outcome(board) # "InProgress" =>
        \A row \in 0 .. 2 : \A column \in 0 .. 2 :
            player_turn(board, score, bot_difficulty, row, column).score = score

\* C19: at Hard (difficulty_var 3, bot_difficulty 6), the level kept for
\* the whole game, the engine never loses: no board reached from the empty
\* board by X's clicks and the engine's replies holds a completed X line.
C19_HardNeverLoses ==
    difficulty_var = Hard => ~HasLine(board, PLAYER_X)

\* A game at Hard that X has played to a full board: a draw, scored as one.
C19_Witness ==
    /\ difficulty_var = Hard
    /\ bot_difficulty = 6
    /\ Outcome(board) = "Draw"
    /\ score.Tie = 1

\* Some sequence of clicks on Empty cells, each answered by the engine as
\* player_turn has it answer, leads from board b to a completed X line.
RECURSIVE CanBeat(_, _, _)
CanBeat(b, sc, difficulty) ==
    \E row \in 0 .. 2 : \E column \in 0 .. 2 :
        /\ b[Cell(row, column)] = EMPTY
        /\ LET done == player_turn(b, sc, difficulty, row, column)
           IN  \/ HasLine(done.board, PLAYER_X)
               \/ /\ Outcome(done.board) = "InProgress"
                  /\ CanBeat(done.board, done.score, difficulty)

\* C20: at Easy (bot_difficulty 2) the engine can be beaten: whenever a
\* game stands at the empty board, there is a sequence of legal X moves,
\* each answered by the engine, that reaches a completed X line.
C20_EasyCanBeBeaten ==
    (board = EmptyBoard /\ difficulty_var = Easy) =>
        CanBeat(board, score, bot_difficulty)

\* A game at Easy that X has won: a completed X line, scored for X.
C20_Witness ==
    /\ difficulty_var = Easy
    /\ bot_difficulty = 2
    /\ HasLine(board, PLAYER_X)
    /\ ~HasLine(board, PLAYER_O)
    /\ score.X = 1

\* C21: reset_game can be run in every state, mid-game or after a finished
\* game; a step that empties a board holding marks (only reset_game does)
\* leaves the three counters of the tally, the level and bot_difficulty as
\* they were; and the first marks on an empty board are X's, on the cell
\* clicked, followed by the engine's one O.
C21_ResetFrame ==
    /\ [](ENABLED ResetGame)
    /\ [][(board # EmptyBoard /\ board' = EmptyBoard) =>
            /\ score' = score
            /\ bot_difficulty' = bot_difficulty
            /\ difficulty_var' = difficulty_var]_vars
    /\ [][(board = EmptyBoard /\ board' # EmptyBoard) =>
            /\ CountOf(board', PLAYER_X) = 1
            /\ CountOf(board', PLAYER_O) = 1]_vars

\* The empty board after a finished game was reset: the game's point is
\* still in the tally, at a level other than the initial one.
C21_Witness ==
    /\ board = EmptyBoard
    /\ Total(score) = 1
    /\ bot_difficulty = 6

\* C22 as claimed: the bookkeeping is free of races: under every
\* interleaving of the main thread with the animation threads,
\* active_threads holds no thread that has ended.
C22_NoTerminatedThreadKept ==
    \A t \in Threads : animate_highlight[t] = "done" => t \notin active_threads
=============================================================================
